---- MODULE Spec2Model ----
(***************************************************************************)
(* donotation, examples/raiseexceptionexample.py.                          *)
(*                                                                         *)
(* A state-threading monad (StateMonad, collect_even_numbers), a do-block  *)
(* (example) that the do decorator turns into nested flat_map calls, and   *)
(* the module-level caller that builds the composed value and runs it.     *)
(*                                                                         *)
(* Python values are modelled as records tagged by t:                      *)
(*   "int"     a plain integer                                             *)
(*   "collect" the StateMonad returned by collect_even_numbers(num)        *)
(*   "bind"    the StateMonad returned by self.flat_map(func)              *)
(*   "raise"   an AttributeError in place of a value                       *)
(* Closures (continuations) are records too:                               *)
(*   "do"      the do-block's continuation after suspension point k        *)
(*   "lam"     a hand-written lambda v: <operand>(v).flat_map(rest)        *)
(*   "add"     lambda v: collect_even_numbers(v + d)                       *)
(*   "then"    lambda v: f(v).flat_map(g)                                  *)
(* Contexts are Python set objects: heap[r] is the content of object r, a  *)
(* context is passed around as the reference r.                            *)
(***************************************************************************)
EXTENDS Integers, Sequences, FiniteSets, TLC

VARIABLES
    scenario,   \* what the caller does: "once", "twice", "equiv", "assoc"
    body,       \* the do-block: its suspension points, in source order
    init,       \* the argument of the decorated function
    state0,     \* the content of the caller's initial context when created
    tm, tf, tg, \* a monad and two continuations the caller composes by hand
    pc,         \* "start", "built", "running", "done", "error"
    composed,   \* the composed value the caller holds
    ctrl,       \* the call being made or the pair being returned
    stack,      \* the frames of next(), innermost first
    heap,       \* the set objects
    results,    \* the (state, value) pairs the caller has obtained
    evaluated,  \* suspension points whose operand has been evaluated
    effects,    \* nums whose state function ran in this execution, in order
    applied,    \* continuation calls made in this execution
    errAt       \* suspension point that raised, 0 if none

vars == <<scenario, body, init, state0, tm, tf, tg, pc, composed, ctrl, stack,
          heap, results, evaluated, effects, applied, errAt>>

inputs == <<scenario, body, init, state0, tm, tf, tg>>

(* ------------------------------ bounds -------------------------------- *)

MaxYields == 3

MaxInit == 3

Deltas == {1, 2}

Contexts == SUBSET {1, 2}

(* ------------------------------ values -------------------------------- *)

\* no composed value
None == [t |-> "none"]

\* no call in progress
Idle == [op |-> "idle"]

\* AttributeError: 'int' object has no attribute 'flat_map'
Raise == [t |-> "raise", exc |-> "AttributeError", attr |-> "flat_map"]

\* the exception, propagating to the module level
Raised(r) == [op |-> "raise", exc |-> r.exc, attr |-> r.attr]

Plain(n) == [t |-> "int", num |-> n]

\* collect_even_numbers(num): a StateMonad whose func closes over num
Collect(n) == [t |-> "collect", num |-> n]

\* StateMonad(func=next), next closing over self and func
Bind(m, f) == [t |-> "bind", self |-> m, func |-> f]

Add(d) == [t |-> "add", d |-> d]

Then(f, g) == [t |-> "then", f |-> f, g |-> g]

DoCont(k) == [t |-> "do", k |-> k]

\* the continuations the caller composes by hand
Conts ==
    {Add(d) : d \in Deltas} \cup {Then(Add(a), Add(b)) : a, b \in Deltas}

\* faulty variant: collect_even_numbers returns the bare func, which has no flat_map
HasFlatMapBindOnly(x) == x.t = "bind"

\* attribute lookup: StateMonad defines flat_map, int does not
HasFlatMap(x) == x.t \in {"collect", "bind"}

\* x.flat_map(f)
flat_map(x, f) == IF HasFlatMap(x) THEN Bind(x, f) ELSE Raise

(* ----------------------------- the do-block --------------------------- *)

Monadic(d) == [kind |-> "monad", d |-> d]

NonMonadic(d) == [kind |-> "plain", d |-> d]

Steps == {Monadic(d) : d \in Deltas} \cup {NonMonadic(1)}

Bodies == UNION {[1..n -> Steps] : n \in 1..MaxYields}

\* faulty variant: the second suspension point yields collect_even_numbers(x+1)
ExampleBodyConforming == <<Monadic(1), Monadic(1), Monadic(1)>>

\* the body as written: yield collect_even_numbers(init+1); yield x+1;
\* yield collect_even_numbers(y+1)
ExampleBody == <<Monadic(1), NonMonadic(1), Monadic(1)>>

ExampleInit == 3

\* return collect_even_numbers(z+1)
RetDelta == 1

\* the operand expression of a suspension point, given the previous value
Operand(step, v) ==
    IF step.kind = "monad" THEN Collect(v + step.d) ELSE Plain(v + step.d)

\* faulty variant: the continuation re-enters the body one suspension point too far
DoResumeSkip(k, v) ==
    IF k < Len(body)
    THEN flat_map(Operand(body[k + 1], v), DoCont(k + 2))
    ELSE Collect(v + RetDelta)

\* the do-runner re-enters the body after suspension point k with value v
DoResume(k, v) ==
    IF k < Len(body)
    THEN flat_map(Operand(body[k + 1], v), DoCont(k + 1))
    ELSE Collect(v + RetDelta)

\* the same body written by hand as nested lambdas, innermost first
RECURSIVE Nest(_)
Nest(k) ==
    IF k < Len(body)
    THEN [t |-> "lam", step |-> body[k + 1], rest |-> Nest(k + 1)]
    ELSE Add(RetDelta)

\* func(value)
RECURSIVE Apply(_, _)
Apply(f, v) ==
    CASE f.t = "do"   -> DoResume(f.k, v)
      [] f.t = "lam"  -> flat_map(Operand(f.step, v), f.rest)
      [] f.t = "add"  -> Collect(v + f.d)
      [] f.t = "then" -> flat_map(Apply(f.f, v), f.g)

Range(s) == {s[i] : i \in 1..Len(s)}

Evens(S) == {n \in S : n % 2 = 0}

(* ------------------------------ Init ---------------------------------- *)

Init ==
    /\ scenario \in {"once", "twice", "equiv", "assoc"}
    /\ init \in 1..MaxInit
    /\ state0 \in Contexts
    /\ IF scenario = "assoc"
       THEN /\ body = ExampleBody
            /\ tm \in {Collect(init)} \cup {Bind(Collect(init), Add(d)) : d \in Deltas}
            /\ tf \in Conts
            /\ tg \in Conts
       ELSE /\ body \in Bodies
            /\ tm = Collect(init)
            /\ tf = Add(1)
            /\ tg = Add(1)
    /\ pc = "start"
    /\ composed = None
    /\ ctrl = Idle
    /\ stack = <<>>
    /\ heap = <<state0>>
    /\ results = <<>>
    /\ evaluated = {}
    /\ effects = <<>>
    /\ applied = 0
    /\ errAt = 0

(* ------------------------ building composed values -------------------- *)

\* faulty variant: binding also runs the first operand's state function at once
CallEager ==
    /\ pc = "start"
    /\ scenario \in {"once", "twice", "equiv"}
    /\ evaluated' = {1}
    /\ LET x == Operand(body[1], init)
           c == flat_map(x, DoCont(1))
       IN  IF c = Raise
           THEN /\ pc' = "error"
                /\ errAt' = 1
                /\ composed' = composed
                /\ ctrl' = Raised(c)
                /\ effects' = effects
                /\ heap' = heap
           ELSE /\ pc' = "built"
                /\ errAt' = errAt
                /\ composed' = c
                /\ ctrl' = ctrl
                /\ effects' = Append(effects, x.num)
                /\ heap' = IF x.num % 2 = 0
                           THEN Append(heap, heap[1] \cup {x.num})
                           ELSE heap
    /\ UNCHANGED <<inputs, stack, results, applied>>

\* example(init): the do-runner obtains the first operand and binds it
Call ==
    /\ pc = "start"
    /\ scenario \in {"once", "twice", "equiv"}
    /\ evaluated' = {1}
    /\ LET c == flat_map(Operand(body[1], init), DoCont(1))
       IN  IF c = Raise
           THEN /\ pc' = "error"
                /\ errAt' = 1
                /\ composed' = composed
                /\ ctrl' = Raised(c)
           ELSE /\ pc' = "built"
                /\ errAt' = errAt
                /\ composed' = c
                /\ ctrl' = ctrl
    /\ UNCHANGED <<inputs, stack, heap, results, effects, applied>>

\* the same chain nested by hand
BuildManual ==
    /\ pc = "done"
    /\ scenario = "equiv"
    /\ Len(results) = 1
    /\ composed' = flat_map(Operand(body[1], init), Nest(1))
    /\ pc' = "built"
    /\ UNCHANGED <<inputs, ctrl, stack, heap, results, evaluated, effects,
                   applied, errAt>>

\* tm.flat_map(tf).flat_map(tg)
BuildLeft ==
    /\ pc = "start"
    /\ scenario = "assoc"
    /\ composed' = flat_map(flat_map(tm, tf), tg)
    /\ pc' = "built"
    /\ UNCHANGED <<inputs, ctrl, stack, heap, results, evaluated, effects,
                   applied, errAt>>

\* tm.flat_map(lambda v: tf(v).flat_map(tg))
BuildRight ==
    /\ pc = "done"
    /\ scenario = "assoc"
    /\ Len(results) = 1
    /\ composed' = flat_map(tm, Then(tf, tg))
    /\ pc' = "built"
    /\ UNCHANGED <<inputs, ctrl, stack, heap, results, evaluated, effects,
                   applied, errAt>>

(* ------------------------------ execution ----------------------------- *)

\* faulty variant: a composed value that was executed returns its cached result
RunMemo ==
    /\ \/ pc = "built"
       \/ pc = "done" /\ scenario = "twice" /\ Len(results) = 1
    /\ IF pc = "built"
       THEN /\ pc' = "running"
            /\ ctrl' = [op |-> "call", m |-> composed, s |-> 1]
            /\ results' = results
       ELSE /\ pc' = "done"
            /\ ctrl' = ctrl
            /\ results' = Append(results, [state |-> results[1].state,
                                           value |-> results[1].value,
                                           effects |-> <<>>, applied |-> 0])
    /\ effects' = <<>>
    /\ applied' = 0
    /\ UNCHANGED <<inputs, composed, stack, heap, evaluated, errAt>>

\* composed.func(state), state the caller's set object
Run ==
    /\ \/ pc = "built"
       \/ pc = "done" /\ scenario = "twice" /\ Len(results) = 1
    /\ pc' = "running"
    /\ ctrl' = [op |-> "call", m |-> composed, s |-> 1]
    /\ effects' = <<>>
    /\ applied' = 0
    /\ UNCHANGED <<inputs, composed, stack, heap, results, evaluated, errAt>>

\* next(state): n_state, value = self.func(state)
EnterNext ==
    /\ pc = "running"
    /\ ctrl.op = "call"
    /\ ctrl.m.t = "bind"
    /\ stack' = <<[stage |-> "self", func |-> ctrl.m.func, state |-> ctrl.s]>>
                    \o stack
    /\ ctrl' = [op |-> "call", m |-> ctrl.m.self, s |-> ctrl.s]
    /\ UNCHANGED <<inputs, pc, composed, heap, results, evaluated, effects,
                   applied, errAt>>

\* faulty variant: the parity test is dropped, every num is collected
RunCollectAll ==
    /\ pc = "running"
    /\ ctrl.op = "call"
    /\ ctrl.m.t = "collect"
    /\ heap' = Append(heap, heap[ctrl.s] \cup {ctrl.m.num})
    /\ ctrl' = [op |-> "ret", s |-> Len(heap) + 1, v |-> ctrl.m.num]
    /\ effects' = Append(effects, ctrl.m.num)
    /\ UNCHANGED <<inputs, pc, composed, stack, results, evaluated, applied,
                   errAt>>

\* faulty variant: state.add(num) in place of state = state | {num}
RunCollectInPlace ==
    /\ pc = "running"
    /\ ctrl.op = "call"
    /\ ctrl.m.t = "collect"
    /\ heap' = IF ctrl.m.num % 2 = 0
               THEN [heap EXCEPT ![ctrl.s] = @ \cup {ctrl.m.num}]
               ELSE heap
    /\ ctrl' = [op |-> "ret", s |-> ctrl.s, v |-> ctrl.m.num]
    /\ effects' = Append(effects, ctrl.m.num)
    /\ UNCHANGED <<inputs, pc, composed, stack, results, evaluated, applied,
                   errAt>>

\* func(state) of collect_even_numbers(num)
RunCollect ==
    /\ pc = "running"
    /\ ctrl.op = "call"
    /\ ctrl.m.t = "collect"
    /\ IF ctrl.m.num % 2 = 0
       THEN /\ heap' = Append(heap, heap[ctrl.s] \cup {ctrl.m.num})
            /\ ctrl' = [op |-> "ret", s |-> Len(heap) + 1, v |-> ctrl.m.num]
       ELSE /\ heap' = heap
            /\ ctrl' = [op |-> "ret", s |-> ctrl.s, v |-> ctrl.m.num]
    /\ effects' = Append(effects, ctrl.m.num)
    /\ UNCHANGED <<inputs, pc, composed, stack, results, evaluated, applied,
                   errAt>>

\* faulty variant: func(value).func(state), the context next was called with
ApplyFuncStale ==
    /\ pc = "running"
    /\ ctrl.op = "ret"
    /\ stack # <<>>
    /\ Head(stack).stage = "self"
    /\ LET fr == Head(stack)
           r  == Apply(fr.func, ctrl.v)
           at == IF fr.func.t = "do" /\ fr.func.k < Len(body)
                 THEN {fr.func.k + 1} ELSE {}
       IN  /\ applied' = applied + 1
           /\ evaluated' = evaluated \cup at
           /\ IF r = Raise
              THEN /\ pc' = "error"
                   /\ errAt' = IF at = {} THEN errAt ELSE fr.func.k + 1
                   /\ stack' = <<>>
                   /\ ctrl' = Raised(r)
              ELSE /\ pc' = pc
                   /\ errAt' = errAt
                   /\ stack' = <<[stage |-> "next", func |-> fr.func,
                                  state |-> fr.state, n_state |-> ctrl.s,
                                  value |-> ctrl.v]>> \o Tail(stack)
                   /\ ctrl' = [op |-> "call", m |-> r, s |-> fr.state]
    /\ UNCHANGED <<inputs, composed, heap, results, effects>>

\* faulty variant: next catches the exception and returns self's pair
ApplyFuncSwallow ==
    /\ pc = "running"
    /\ ctrl.op = "ret"
    /\ stack # <<>>
    /\ Head(stack).stage = "self"
    /\ LET fr == Head(stack)
           r  == Apply(fr.func, ctrl.v)
           at == IF fr.func.t = "do" /\ fr.func.k < Len(body)
                 THEN {fr.func.k + 1} ELSE {}
       IN  /\ applied' = applied + 1
           /\ evaluated' = evaluated \cup at
           /\ pc' = pc
           /\ IF r = Raise
              THEN /\ errAt' = IF at = {} THEN errAt ELSE fr.func.k + 1
                   /\ stack' = Tail(stack)
                   /\ ctrl' = ctrl
              ELSE /\ errAt' = errAt
                   /\ stack' = <<[stage |-> "next", func |-> fr.func,
                                  state |-> fr.state, n_state |-> ctrl.s,
                                  value |-> ctrl.v]>> \o Tail(stack)
                   /\ ctrl' = [op |-> "call", m |-> r, s |-> ctrl.s]
    /\ UNCHANGED <<inputs, composed, heap, results, effects>>

\* next(state): func(value).func(n_state), up to the call of .func
ApplyFunc ==
    /\ pc = "running"
    /\ ctrl.op = "ret"
    /\ stack # <<>>
    /\ Head(stack).stage = "self"
    /\ LET fr == Head(stack)
           r  == Apply(fr.func, ctrl.v)
           at == IF fr.func.t = "do" /\ fr.func.k < Len(body)
                 THEN {fr.func.k + 1} ELSE {}
       IN  /\ applied' = applied + 1
           /\ evaluated' = evaluated \cup at
           /\ IF r = Raise
              THEN /\ pc' = "error"
                   /\ errAt' = IF at = {} THEN errAt ELSE fr.func.k + 1
                   /\ stack' = <<>>
                   /\ ctrl' = Raised(r)
              ELSE /\ pc' = pc
                   /\ errAt' = errAt
                   /\ stack' = <<[stage |-> "next", func |-> fr.func,
                                  state |-> fr.state, n_state |-> ctrl.s,
                                  value |-> ctrl.v]>> \o Tail(stack)
                   /\ ctrl' = [op |-> "call", m |-> r, s |-> ctrl.s]
    /\ UNCHANGED <<inputs, composed, heap, results, effects>>

\* faulty variant: next returns the value of self, not the continuation's
ReturnNextOwnValue ==
    /\ pc = "running"
    /\ ctrl.op = "ret"
    /\ stack # <<>>
    /\ Head(stack).stage = "next"
    /\ stack' = Tail(stack)
    /\ ctrl' = [ctrl EXCEPT !.v = Head(stack).value]
    /\ UNCHANGED <<inputs, pc, composed, heap, results, evaluated, effects,
                   applied, errAt>>

\* next(state): return what func(value).func(n_state) returned
ReturnNext ==
    /\ pc = "running"
    /\ ctrl.op = "ret"
    /\ stack # <<>>
    /\ Head(stack).stage = "next"
    /\ stack' = Tail(stack)
    /\ ctrl' = ctrl
    /\ UNCHANGED <<inputs, pc, composed, heap, results, evaluated, effects,
                   applied, errAt>>

\* state, value = <composed>.func(state)
Finish ==
    /\ pc = "running"
    /\ ctrl.op = "ret"
    /\ stack = <<>>
    /\ results' = Append(results, [state |-> heap[ctrl.s], value |-> ctrl.v,
                                   effects |-> effects, applied |-> applied])
    /\ pc' = "done"
    /\ ctrl' = Idle
    /\ UNCHANGED <<inputs, composed, stack, heap, evaluated, effects, applied,
                   errAt>>

Next ==
    \/ Call
    \/ BuildManual
    \/ BuildLeft
    \/ BuildRight
    \/ Run
    \/ EnterNext
    \/ RunCollect
    \/ ApplyFunc
    \/ ReturnNext
    \/ Finish

Spec == Init /\ [][Next]_vars

\* the interpreter runs the program to its end
FairSpec == Spec /\ WF_vars(Next)

(* ------------------------------ properties ---------------------------- *)

AllMonadic == \A k \in 1..Len(body) : body[k].kind = "monad"

Pair(r) == <<r.state, r.value>>

\* the scenario of the module-level run: example(3) from an empty set
IsExampleRun ==
    /\ scenario = "once"
    /\ body = ExampleBody
    /\ init = ExampleInit
    /\ state0 = {}

\* C1: for a do-block of n >= 1 suspension points, all of them yielding
\* collect_even_numbers steps, executing the value the do-runner composed
\* returns the same (context, value) pair as executing the n flat_map calls
\* nested by hand in source order, from the same initial context.
C1_DoRunnerEqualsManualNest ==
    (scenario = "equiv" /\ Len(results) = 2) =>
        /\ AllMonadic
        /\ Pair(results[1]) = Pair(results[2])

C1_Witness ==
    /\ scenario = "equiv"
    /\ Len(results) = 2
    /\ Len(body) = MaxYields
    /\ body[2].d # body[3].d
    /\ results[2].state # state0

\* C2: a suspension point that is reached raises the capability violation
\* exactly when its operand does not expose flat_map, at whatever position
\* of the chain it stands; an operand that exposes flat_map never raises it.
C2_RaisesIffNotConforming ==
    /\ \A k \in evaluated :
          /\ body[k].kind = "monad" => errAt # k
          /\ body[k].kind = "plain" =>
                /\ pc = "error"
                /\ errAt = k
                /\ ctrl = Raised(Raise)
    /\ errAt # 0 => errAt \in evaluated
    /\ pc = "error" => errAt # 0

C2_Witness ==
    /\ pc = "error"
    /\ Len(body) = 3
    /\ errAt = 2
    /\ body[1].kind = "monad"

C4_NoChainReturnedToCaller ==
    errAt # 0 =>
        /\ evaluated = 1..errAt
        /\ composed = None

\* C4, amended: the computation fails at that step, no later suspension
\* point is ever evaluated, the failing step returns nothing and no pair
\* is produced; the decorated function returns no composed value only when
\* the failing suspension point is the first one, otherwise it had already
\* returned the composed value, whose execution is what raises.
C4_FailsAtThatStep ==
    errAt # 0 =>
        /\ pc = "error"
        /\ ctrl = Raised(Raise)
        /\ evaluated = 1..errAt
        /\ stack = <<>>
        /\ results = <<>>
        /\ ~ENABLED Next
        /\ errAt = 1 => composed = None /\ effects = <<>>
        /\ errAt > 1 =>
              /\ composed = Bind(Operand(body[1], init), DoCont(1))
              /\ Len(effects) = errAt - 1

C4_Witness ==
    /\ IsExampleRun
    /\ errAt = 2
    /\ composed # None
    /\ evaluated = {1, 2}

\* the documented variant without the error: every suspension point yields
\* collect_even_numbers of the previous value plus one
NonErrorBody == <<Monadic(1), Monadic(1), Monadic(1)>>

IsNonErrorRun ==
    /\ scenario = "once"
    /\ body = NonErrorBody
    /\ init = ExampleInit
    /\ state0 = {}

\* C5: the non-error variant, run for input 3 from the empty set, terminates
\* with value 7 and context {4, 6}.
C5_NonErrorVariantResult ==
    IsNonErrorRun =>
        <>[](/\ pc = "done"
             /\ Len(results) = 1
             /\ results[1].value = 7
             /\ results[1].state = {4, 6})

C5_Witness ==
    /\ IsNonErrorRun
    /\ pc = "done"
    /\ Pair(results[1]) = <<{4, 6}, 7>>

AtCall == pc = "running" /\ ctrl.op = "call"

AtReturn == pc = "running" /\ ctrl.op = "ret" /\ stack # <<>>

\* C6: executing m.flat_map(f) from s executes m from s, then applies f
\* once to the value v that m returned, then executes f(v) from the context
\* s1 that m returned, and returns the pair of that execution unchanged.
C6_FlatMapSteps ==
    [][/\ (AtCall /\ ctrl.m.t = "bind") =>
              /\ ctrl' = [op |-> "call", m |-> ctrl.m.self, s |-> ctrl.s]
              /\ stack' = <<[stage |-> "self", func |-> ctrl.m.func,
                             state |-> ctrl.s]>> \o stack
              /\ applied' = applied
              /\ heap' = heap
       /\ (AtReturn /\ Head(stack).stage = "self") =>
              /\ applied' = applied + 1
              /\ heap' = heap
              /\ effects' = effects
              /\ \/ /\ Apply(Head(stack).func, ctrl.v) = Raise
                    /\ pc' = "error"
                 \/ /\ ctrl' = [op |-> "call",
                                m |-> Apply(Head(stack).func, ctrl.v),
                                s |-> ctrl.s]
                    /\ Head(stack').stage = "next"
                    /\ Head(stack').func = Head(stack).func
                    /\ Tail(stack') = Tail(stack)
       /\ (AtReturn /\ Head(stack).stage = "next") =>
              /\ ctrl' = ctrl
              /\ stack' = Tail(stack)
              /\ applied' = applied
              /\ heap' = heap
              /\ effects' = effects
      ]_vars

C6_Witness ==
    /\ AtReturn
    /\ Head(stack).stage = "next"
    /\ Head(stack).n_state # Head(stack).state
    /\ ctrl.s # Head(stack).n_state

\* C7: tm.flat_map(tf).flat_map(tg) and
\* tm.flat_map(lambda v: tf(v).flat_map(tg)), executed from the same
\* context, return the same (context, value) pair.
C7_FlatMapAssociative ==
    (scenario = "assoc" /\ Len(results) = 2) =>
        Pair(results[1]) = Pair(results[2])

C7_Witness ==
    /\ scenario = "assoc"
    /\ Len(results) = 2
    /\ tm.t = "bind"
    /\ tf # tg
    /\ Cardinality(results[2].state \ state0) >= 2

Constructing == pc # "running" /\ pc' # "running"

Invoking == pc # "running" /\ pc' = "running"

\* C8 as stated: constructing a composed value runs no part of the body and
\* no state function and touches no context.
C8_ConstructionRunsNothing ==
    [][/\ Constructing =>
              /\ evaluated' = evaluated
              /\ heap' = heap
              /\ effects' = effects
              /\ applied' = applied
       /\ Invoking => heap' = heap /\ evaluated' = evaluated
      ]_vars

\* C8, amended: constructing a composed value evaluates the operand
\* expression of the first suspension point and nothing more of the body;
\* it runs no state function and no continuation and touches no context.
\* The rest of the body and the state functions run only once the caller
\* has invoked .func(state).
C8_ConstructionRunsFirstOperandOnly ==
    [][/\ Constructing =>
              /\ evaluated' \subseteq evaluated \cup {1}
              /\ heap' = heap
              /\ effects' = effects
              /\ applied' = applied
              /\ stack' = stack
              /\ results' = results
       /\ Invoking => heap' = heap /\ evaluated' = evaluated
      ]_vars

C8_Witness ==
    /\ pc = "built"
    /\ results = <<>>
    /\ composed = Bind(Operand(body[1], init), DoCont(1))
    /\ evaluated = {1}
    /\ heap = <<state0>>
    /\ Len(body) > 1

\* C9: executing the same composed value a second time from the same
\* initial context runs every state function and every continuation again,
\* and returns what those runs compute from that context.
C9_NoMemoization ==
    (scenario = "twice" /\ Len(results) = 2) =>
        /\ results[2].effects = results[1].effects
        /\ Len(results[2].effects) = Len(body) + 1
        /\ results[1].applied = Len(body)
        /\ results[2].applied = Len(body)
        /\ results[2].state = state0 \cup Evens(Range(results[2].effects))
        /\ results[2].value = results[2].effects[Len(body) + 1]
        /\ Pair(results[2]) = Pair(results[1])

C9_Witness ==
    /\ scenario = "twice"
    /\ Len(results) = 2
    /\ Len(body) = MaxYields
    /\ results[2].state # state0

\* C10: the threaded context is always the caller's initial context united
\* with the even nums of the state functions run so far; the value a
\* collect_even_numbers(n) step returns is n; the caller's own set object
\* keeps its content, also when the execution raises.
C10_ContextInvariant ==
    /\ heap[1] = state0
    /\ ctrl.op \in {"call", "ret"} =>
          /\ heap[ctrl.s] = state0 \cup Evens(Range(effects))
          /\ \A i \in 1..Len(stack) :
                /\ state0 \subseteq heap[stack[i].state]
                /\ heap[stack[i].state] \subseteq heap[ctrl.s]
    /\ ctrl.op = "ret" =>
          /\ effects # <<>>
          /\ ctrl.v = effects[Len(effects)]
    /\ \A i \in 1..Len(results) :
          results[i].state = state0 \cup Evens(Range(results[i].effects))

C10_Witness ==
    /\ pc = "error"
    /\ errAt = 3
    /\ state0 = {1, 2}
    /\ Len(heap) > 1
    /\ heap[Len(heap)] # state0

====
